---- MODULE Spec2Model ----
(***************************************************************************)
(* The two notebooks of the repository as one state machine.               *)
(*                                                                         *)
(*   "dataset"  : Aula 1/3 - Dataset and DataLoader.ipynb                  *)
(*   "training" : the training notebook (src/unnamed/part_000)             *)
(*                                                                         *)
(* A notebook is a sequence of cells run top to bottom; a cell that raises *)
(* is abandoned at the raising statement and the next cell can still run   *)
(* (the recorded training notebook ran cells 25..36 after cell 24 raised). *)
(*                                                                         *)
(* Real numbers are fixed-point integers.  An image is one value and a     *)
(* layer holds a few values where the code's holds thousands; all ten      *)
(* parameter tensors of the network (weight and bias of conv1, conv2, fc1, *)
(* fc2 and fc3) are initialised, read by the forward pass, given a         *)
(* gradient by backward() and updated by optimizer.step().                 *)
(***************************************************************************)
EXTENDS Integers, Sequences, FiniteSets, TLC

VARIABLES
    notebook,        \* which notebook is being run
    pc,              \* the next cell, or the position inside the running cell
    disk,            \* the CIFAR10 files under ./data (sizes and content pattern)
    rng,             \* the random draws the run makes (shuffle order, weight init)
    fault,           \* the framework call at which the accelerator raises, if any
    transform,       \* the transform pipeline
    trainset,        \* dataset objects
    testset,
    trainloader,     \* a DataLoader object, later a list of batches
    testloader,
    classes,         \* the tuple of class names
    device,          \* torch.device
    net,             \* the network: its trained parameters and its device
    momentum_buffer, \* optimizer state (SGD momentum): the buffer of every parameter, <<>> if none yet
    grad,            \* the accumulated .grad of every parameter
    epoch, epochIt,  \* loop variable and range iterator of the outer loop
    i, batchIt,      \* loop variable and enumerate iterator of the inner loop
    images, inputs, labels, outputs, loss,
    running_loss,
    correct, total,
    x,               \* the local x of Net.forward while a forward pass runs
    fpc,             \* the next statement of Net.forward, "idle" outside a pass
    stdout,          \* printed lines, in order
    shown,           \* figures drawn by plt.imshow, in order
    errors,          \* exceptions raised so far: <<cell, exception>>
    steps,           \* history: number of completed optimizer.step() calls
    recent,          \* history: the last framework calls of the training loop
    calls,           \* history: the modules the current forward pass has called
    lastStep,        \* history: the parameters as the last completed step left them
    epochLoss,       \* history: the sum of loss.item() over the current epoch so far
    marks            \* history: epochLoss at every 2000th batch of an epoch

vars == <<notebook, pc, disk, rng, fault, transform, trainset, testset, trainloader,
          testloader, classes, device, net, momentum_buffer, grad, epoch,
          epochIt, i, batchIt, images, inputs, labels, outputs, loss,
          running_loss, correct, total, x, fpc, stdout, shown, errors, steps,
          recent, calls, lastStep, epochLoss, marks>>

\* the variables by what holds them
run == <<notebook, disk, rng, fault>>
objects == <<transform, trainset, testset, trainloader, testloader, classes, device>>
params == <<net, momentum_buffer, grad>>
loops == <<epoch, epochIt, i, batchIt>>
pass == <<x, fpc, calls>>
locals == <<images, inputs, labels, outputs, loss, running_loss, correct, total>>
output == <<stdout, shown, errors>>
history == <<steps, recent, lastStep, epochLoss, marks>>

(***************************************************************************)
(* Bounds of the model.                                                    *)
(***************************************************************************)
MaxTrain == 8          \* training samples on disk, small runs
MaxTest == 6           \* test samples on disk, small runs
MaxPermuted == 4       \* every order of up to MaxPermuted samples is drawn
MaxInitDraw == 1       \* initial parameters: draws 0..MaxInitDraw
LongBatches == 4500    \* training batches of the long run
RecentLen == 5         \* framework calls kept in the history window
MaxExplicit == 8       \* a longer list of batches is kept by its rule, not by its items
MaxPixels == 3         \* values of an image put through the transform alone

(***************************************************************************)
(* Program constants.                                                      *)
(***************************************************************************)
Scale == 1000          \* fixed point: 1.0 is Scale
BatchSize == 4
NumEpochs == 2
PrintEvery == 2000
PrintAt == 1999
PrintDivisor == 2000
NumLabelsPrinted == 4
NumClasses == 10
PixelMax == 255
NormMean == 500
NormStd == 500
LrInverse == 1000      \* lr = 0.001
MomentumTenths == 9    \* momentum = 0.9
Percent == 100
Window == 2000         \* history: the reporting period the statistics are checked against

None == [kind |-> "None"]

Abs(v) == IF v < 0 THEN -v ELSE v
Sgn(v) == IF v < 0 THEN -1 ELSE IF v > 0 THEN 1 ELSE 0
Min(a, b) == IF a <= b THEN a ELSE b
\* division rounding toward zero
TruncDiv(a, b) == Sgn(a) * (Abs(a) \div b)
\* division rounding to the nearest integer
RoundDiv(a, b) ==
    Sgn(a) * ((Abs(a) \div b) + (IF 2 * (Abs(a) % b) >= b THEN 1 ELSE 0))

\* s[a] + ... + s[b]
RECURSIVE SumRange(_, _, _)
SumRange(s, a, b) ==
    IF a > b THEN 0
    ELSE IF a = b THEN s[a]
    ELSE LET m == (a + b) \div 2 IN SumRange(s, a, m) + SumRange(s, m + 1, b)
SumSeq(s) == SumRange(s, 1, Len(s))

RECURSIVE Factorial(_)
Factorial(n) == IF n <= 1 THEN 1 ELSE n * Factorial(n - 1)

RECURSIVE Gcd(_, _)
Gcd(a, b) == IF b = 0 THEN a ELSE Gcd(b, a % b)

\* s without its idx-th element
RemoveAt(s, idx) == [k \in 1..(Len(s) - 1) |-> IF k < idx THEN s[k] ELSE s[k + 1]]

\* the r-th permutation of the sequence s (factorial number system)
RECURSIVE NthPerm(_, _)
NthPerm(s, r) ==
    IF Len(s) = 0 THEN <<>>
    ELSE LET f == Factorial(Len(s) - 1)
             idx == ((r \div f) % Len(s)) + 1
         IN <<s[idx]>> \o NthPerm(RemoveAt(s, idx), r % f)

(***************************************************************************)
(* classes = ('plane', 'car', ...)                                         *)
(***************************************************************************)
ClassNames == <<"plane", "car", "bird", "cat", "deer",
                "dog", "frog", "horse", "ship", "truck">>

(***************************************************************************)
(* The files on disk: n samples.  The k-th (1-based) raw image is a single *)
(* uint8 intensity, different for neighbouring samples.  The files come in *)
(* shards of equal length; a sample before position hard of its shard is   *)
(* labelled by its intensity band (of ds.bands bands), a later one by its  *)
(* index alone.                                                            *)
(***************************************************************************)
RawImage(ds, k) == (29 * ds.base + 53 * k) % (PixelMax + 1)
RawLabel(ds, k) ==
    LET band == (RawImage(ds, k) * ds.bands) \div (PixelMax + 1)
        c == IF (k - 1) % ds.shard >= ds.hard THEN k ELSE band
    IN (ds.base + ds.stride * c) % NumClasses

\* transforms.ToTensor(): uint8 0..255 to a float in [0, 1]
ToTensor(raw) == (raw * Scale) \div PixelMax
\* transforms.Normalize(mean, std): (x - mean) / std
Normalize(v) == ((v - NormMean) * Scale) \div NormStd
\* transforms.Compose([...]): the steps in list order
Compose(ts, raw) ==
    LET Apply(name, v) == IF name = "ToTensor" THEN ToTensor(v) ELSE Normalize(v)
        F[k \in 0..Len(ts)] == IF k = 0 THEN raw ELSE Apply(ts[k], F[k - 1])
    IN F[Len(ts)]

\* CIFAR10(root, train, download, transform): a dataset reading the disk
CIFAR10(d, train, tf) ==
    [kind |-> "CIFAR10", n |-> IF train THEN d.train ELSE d.test,
     base |-> IF train THEN d.base ELSE d.base + 1, stride |-> d.stride,
     shard |-> d.shard, hard |-> d.hard, bands |-> d.bands, transform |-> tf]
\* dataset[k]: (transformed image, label)
GetItem(ds, k) == <<Compose(ds.transform, RawImage(ds, k)), RawLabel(ds, k)>>

(***************************************************************************)
(* Tensors: data and the device holding it.                                *)
(***************************************************************************)
Tensor(data, dev) == [data |-> data, device |-> dev]
\* a tensor that stays where it is
Stay(t, dev) == t
\* tensor.to(device)
To(t, dev) == [t EXCEPT !.device = dev]

\* what CIFAR10(download=True) writes when the files are under ./data
Verified == [kind |-> "verified"]

\* torch.utils.data.DataLoader(dataset, batch_size, shuffle, num_workers)
DataLoader(ds, bs, shuffle) ==
    [kind |-> "DataLoader", dataset |-> ds, batch_size |-> bs, shuffle |-> shuffle]

\* the number of trailing positions the permutation of rank r rearranges
RECURSIVE TailLen(_, _)
TailLen(r, m) == IF Factorial(m) > r THEN m ELSE TailLen(r, m + 1)

\* a sampler that draws with replacement: the same sample at every position
Resample(loader, r, k) ==
    IF loader.shuffle THEN 1 + (r.rank % loader.dataset.n) ELSE k
\* the sampler's order for one pass, by position: k itself without shuffling,
\* else the k-th entry of the permutation the generator drew.  A draw names
\* a permutation of 1..n: the one of rank r.rank in lexicographic order
\* (it rearranges the last positions only when the rank is small), followed
\* by j -> 1 + (r.mult * (j - 1) + r.shift) mod n, r.mult coprime to n.
SamplerOrder(loader, r, k) ==
    LET n == loader.dataset.n
        m == TailLen(r.rank, 0)
        j == IF k <= n - m THEN k
             ELSE (n - m) + NthPerm([t \in 1..m |-> t], r.rank)[k - (n - m)]
    IN IF loader.shuffle THEN 1 + ((r.mult * (j - 1) + r.shift) % n) ELSE k

\* default collate: the samples of a batch stacked into two host tensors
Collate(samples) ==
    <<Tensor([j \in 1..Len(samples) |-> samples[j][1]], "cpu"),
      Tensor([j \in 1..Len(samples) |-> samples[j][2]], "cpu")>>

\* len(loader): the last batch may be short (drop_last=False)
NumBatches(loader) ==
    (loader.dataset.n + loader.batch_size - 1) \div loader.batch_size
\* the b-th batch one full pass of a DataLoader serves
ServedBatch(loader, r, b) ==
    LET n == loader.dataset.n
        bs == loader.batch_size
    IN Collate([j \in 1..Min(bs, n - (b - 1) * bs) |->
                   GetItem(loader.dataset, SamplerOrder(loader, r, (b - 1) * bs + j))])
\* the batches one full pass of a DataLoader serves, in the order served
Serve(loader, r) == [b \in 1..NumBatches(loader) |-> ServedBatch(loader, r, b)]

\* A Python list of batches.  A list of more than MaxExplicit batches is kept
\* by its rule: the batches served by one pass of a loader, moved to a device.
PyList(items) == [kind |-> "list", items |-> items]
MovedList(loader, r, dev) == [kind |-> "moved", of |-> loader, draw |-> r, device |-> dev]

\* len(x) and x[k - 1] of what iterating a loader (DataLoader or list) yields
IterLen(loader) ==
    IF loader.kind = "list" THEN Len(loader.items)
    ELSE IF loader.kind = "moved" THEN NumBatches(loader.of)
    ELSE NumBatches(loader)
IterItem(loader, r, k) ==
    IF loader.kind = "list" THEN loader.items[k]
    ELSE IF loader.kind = "moved"
    THEN <<To(ServedBatch(loader.of, loader.draw, k)[1], loader.device),
           To(ServedBatch(loader.of, loader.draw, k)[2], loader.device)>>
    ELSE ServedBatch(loader, r, k)

(***************************************************************************)
(* class Net(nn.Module): five parameterised layers, all trained.  The      *)
(* parameters are the list net.parameters() gives: weight and bias of      *)
(* conv1, conv2, fc1, fc2, fc3, ten tensors.  A layer is the affine map    *)
(* weight . a + bias on a short row of values (an image is one value,      *)
(* conv1 gives four positions, each pool halves them, fc3 gives the ten    *)
(* scores).  Parameters, activations, scores, gradients and momentum       *)
(* buffers are fixed-point numbers in units of 10^-8, about the spacing of *)
(* float32 near 0.1.                                                       *)
(***************************************************************************)
Micro == Scale * Scale
ParamUnit == 100 * Micro
Features == 2
\* a tensor holds its values: the sequence s, its elements computed once
Values(s) == s \o <<>>
MapSeq(Op(_), s) == Values([k \in 1..Len(s) |-> Op(s[k])])
MaxOf(s) == LET v == {s[k] : k \in 1..Len(s)} IN CHOOSE m \in v : \A u \in v : u <= m

\* net.parameters(), by name in list order
ParamNames ==
    <<"conv1.weight", "conv1.bias", "conv2.weight", "conv2.bias", "fc1.weight",
      "fc1.bias", "fc2.weight", "fc2.bias", "fc3.weight", "fc3.bias">>
\* the layers in the order __init__ registers them; layer l owns the
\* tensors 2l - 1 (weight) and 2l (bias) of net.parameters()
Layers == <<"conv1", "conv2", "fc1", "fc2", "fc3">>
\* values a layer reads and values it gives
InFeatures(l) == IF l = 1 THEN 1 ELSE Features
OutFeatures(l) ==
    CASE l \in {1, 2} -> 2 * Features
      [] l \in {3, 4} -> Features
      [] l = 5 -> NumClasses
\* the number of elements of tensor t of net.parameters()
Numel(t) ==
    LET l == (t + 1) \div 2
    IN IF t % 2 = 1 THEN InFeatures(l) * OutFeatures(l) ELSE OutFeatures(l)

\* a * b / 10^8 to the nearest integer, by parts of four digits
Mul(a, b) ==
    LET ah == Abs(a) \div 10000
        al == Abs(a) % 10000
        bh == Abs(b) \div 10000
        bl == Abs(b) % 10000
        mid == ah * bl + al * bh + RoundDiv(al * bl, 10000)
    IN Sgn(a) * Sgn(b) * (ah * bh + RoundDiv(mid, 10000))
\* an affine layer: weight . a + bias, the weight row by row
Linear(w, b, a) ==
    LET m == Len(a)
    IN Values([c \in 1..Len(b) |->
           SumSeq([j \in 1..m |-> Mul(w[m * (c - 1) + j], a[j])]) + b[c]])

ReluOne(v) == IF v > 0 THEN v ELSE 0
\* F.relu, elementwise
Relu(a) == MapSeq(ReluOne, a)
\* nn.MaxPool2d(2, 2): the maximum of each window of two neighbours
Pool(a) == Values([k \in 1..(Len(a) \div 2) |-> MaxOf(<<a[2 * k - 1], a[2 * k]>>)])
\* the image tensor as the network reads it: one value, from thousandths
Input(v) == <<v * (ParamUnit \div Scale)>>
\* self.conv1 = nn.Conv2d(3, 6, 5)
Conv1(p, a) == Linear(p[1], p[2], a)
\* self.conv2 = nn.Conv2d(6, 16, 5)
Conv2(p, a) == Linear(p[3], p[4], a)
\* x.view(-1, 16 * 5 * 5): the same values, as one feature row
View(a) == Values([k \in 1..Len(a) |-> a[k]])
\* self.fc1 = nn.Linear(16 * 5 * 5, 120)
Fc1(p, a) == Linear(p[5], p[6], a)
\* self.fc2 = nn.Linear(120, 84)
Fc2(p, a) == Linear(p[7], p[8], a)
\* self.fc3 = nn.Linear(84, 10): one score per class
Fc3(p, a) == Linear(p[9], p[10], a)

\* the statements of Net.forward, for one image of the batch
Conv1Line(p, v) == Pool(Relu(Conv1(p, Input(v))))
Conv2Line(p, a) == Pool(Relu(Conv2(p, a)))
Fc1Line(p, a) == Relu(Fc1(p, a))
Fc2Line(p, a) == Relu(Fc2(p, a))
\* Net.forward for one image, up to the input of fc3
Hidden(p, v) == Fc2Line(p, Fc1Line(p, View(Conv2Line(p, Conv1Line(p, v)))))
\* Net.forward for one image
Forward(p, v) == Fc3(p, Hidden(p, v))

\* net(inputs): forward on every image of the batch
NetCall(n, t) ==
    Tensor(Values([j \in 1..Len(t.data) |-> Forward(n.w, t.data[j])]), t.device)

\* index (0-based class) of the first maximal score: torch.max(outputs, 1)[1]
ArgMax(z) ==
    LET m == MaxOf(z)
    IN (CHOOSE c \in 1..Len(z) : z[c] = m /\ \A d \in 1..(c - 1) : z[d] < m) - 1

(***************************************************************************)
(* nn.CrossEntropyLoss(): -log softmax(z)[label], mean over the batch.     *)
(* The loss reads the scores to a millionth and gives sample losses in     *)
(* millionths; the tables of exp are in billionths, and a product is taken *)
(* by parts to stay within the integers of the checker.  A sample loss is  *)
(* within a millionth of the real value; the float the framework computes  *)
(* is itself within a few ten-millionths of it.                            *)
(***************************************************************************)
Nano == Scale * Micro
\* 1.0 where a sum of exponentials is held, in units of 10^-8
Unit8 == 100 * Micro
\* exp(-n), exp(-d/10), exp(-d/100), exp(-d/1000) in billionths
ExpUnits == <<1000000000, 367879441, 135335283, 49787068, 18315638, 6737946, 2478752, 911881, 335462, 123409, 45399, 16701, 6144, 2260, 831, 305>>
ExpTenths == <<1000000000, 904837418, 818730753, 740818220, 670320046, 606530659, 548811636, 496585303, 449328964, 406569659>>
ExpHundredths == <<1000000000, 990049833, 980198673, 970445533, 960789439, 951229424, 941764533, 932393819, 923116346, 913931185>>
ExpThousandths == <<1000000000, 999000499, 998001998, 997004495, 996007989, 995012479, 994017964, 993024442, 992031914, 991040378>>
\* the whole part of a * b / 10^9, from the base-1000 digits of a and b
MulNano(a, b) ==
    LET a2 == a \div Micro
        a1 == (a \div Scale) % Scale
        a0 == a % Scale
        b2 == b \div Micro
        b1 == (b \div Scale) % Scale
        b0 == b % Scale
        t1 == (a1 * b0 + a0 * b1) + (a0 * b0) \div Scale
        t2 == (a2 * b0 + a1 * b1 + a0 * b2) + t1 \div Scale
    IN a2 * b2 * Scale + (a2 * b1 + a1 * b2) + t2 \div Scale
\* a * 10^6 / s to the nearest integer, for 0 <= a <= s, by long division
DivMicro(a, s) ==
    LET r1 == (a * 10) % s
        r2 == (r1 * 10) % s
        r3 == (r2 * 10) % s
        r4 == (r3 * 10) % s
        r5 == (r4 * 10) % s
        r6 == (r5 * 10) % s
    IN 100000 * ((a * 10) \div s) + 10000 * ((r1 * 10) \div s)
         + 1000 * ((r2 * 10) \div s) + 100 * ((r3 * 10) \div s)
         + 10 * ((r4 * 10) \div s) + (r5 * 10) \div s
         + (IF 2 * r6 >= s THEN 1 ELSE 0)
\* exp(-g / 1000) in billionths, for a whole number g of thousandths
ExpGrid(g) ==
    LET n == g \div 1000
    IN IF n >= Len(ExpUnits) THEN 0
       ELSE MulNano(MulNano(MulNano(ExpUnits[n + 1],
                ExpTenths[((g \div 100) % 10) + 1]),
                ExpHundredths[((g \div 10) % 10) + 1]),
                ExpThousandths[(g % 10) + 1])
\* exp(-u / 10^6) for u >= 0, in billionths: between two thousandths of the
\* exponent the value is taken on the straight line between their values
Exp(u) ==
    LET g == u \div 1000
        v == ExpGrid(g)
        w == ExpGrid(g + 1)
    IN v - ((v - w) * (u % 1000)) \div 1000
\* the largest digit d with y * table[d] >= 1 (the tables are descending, so
\* the digits that qualify are 0..d), for y >= 1 in units of 10^-8
Digit(y, table) ==
    Cardinality({d \in 1..(Len(table) - 1) : MulNano(y, table[d + 1]) >= Unit8})
\* log(y) in millionths for y >= 1 in units of 10^-8, digit by digit; the
\* rest r is in 0..0.001, where log(1 + r) is r - r * r / 2
Ln(y) ==
    LET n == Digit(y, ExpUnits)
        y0 == MulNano(y, ExpUnits[n + 1])
        d1 == Digit(y0, ExpTenths)
        y1 == MulNano(y0, ExpTenths[d1 + 1])
        d2 == Digit(y1, ExpHundredths)
        y2 == MulNano(y1, ExpHundredths[d2 + 1])
        d3 == Digit(y2, ExpThousandths)
        r == MulNano(y2, ExpThousandths[d3 + 1]) - Unit8
        h == r \div 100
    IN n * Micro + d1 * 100000 + d2 * 10000 + d3 * 1000
         + (r - (h * h) \div 20000 + 50) \div 100
\* exp(z[c] - max z) for every class, in billionths
Exps(z) == LET m == MaxOf(z) IN Values([c \in 1..Len(z) |-> Exp(m - z[c])])
\* softmax(z), in millionths
Softmax(z) ==
    LET e == MapSeq(LAMBDA v : (v + 50) \div 100, Exps(z))
        sum == SumSeq(e)
    IN Values([c \in 1..Len(z) |-> DivMicro(e[c], sum)])
\* -log softmax(z)[label] = log(sum exp(z - max z)) + max z - z[label]
SampleLoss(z, label) ==
    Ln(SumSeq(MapSeq(LAMBDA v : (v + 5) \div 10, Exps(z)))) + MaxOf(z) - z[label + 1]
\* the scores as the loss reads them, in millionths
ToMicro(z) == Values([c \in 1..Len(z) |-> RoundDiv(z[c], ParamUnit \div Micro)])
\* loss.item() is a float; it is carried on the grid of 2^-16, on which the
\* double sum running_loss of the losses is exact
LossUnit == 65536
\* the mean over the batch, as loss.item() in units of 2^-16
Criterion(out, lab) ==
    LET mean == RoundDiv(SumSeq([j \in 1..Len(out.data) |->
                    SampleLoss(ToMicro(out.data[j]), lab.data[j])]), Len(out.data))
    IN (MulNano(mean, 10000 * LossUnit) + 5) \div 10

(***************************************************************************)
(* loss.backward(): the gradient of the loss with respect to every tensor  *)
(* of net.parameters(), layer by layer from fc3 back to conv1.             *)
(***************************************************************************)
\* zero tensors shaped like net.parameters()
Zeros == Values([t \in 1..Len(ParamNames) |-> Values([k \in 1..Numel(t) |-> 0])])
\* what the forward pass keeps of one image for the backward pass
Activations(p, v) ==
    LET inp == Input(v)
        z1 == Conv1(p, inp)
        r1 == Relu(z1)
        p1 == Pool(r1)
        z2 == Conv2(p, p1)
        r2 == Relu(z2)
        p2 == View(Pool(r2))
        z3 == Fc1(p, p2)
        h1 == Relu(z3)
        z4 == Fc2(p, h1)
        h2 == Relu(z4)
    IN [inp |-> inp, z1 |-> z1, r1 |-> r1, p1 |-> p1, z2 |-> z2, r2 |-> r2,
        p2 |-> p2, z3 |-> z3, h1 |-> h1, z4 |-> z4, h2 |-> h2, s |-> Fc3(p, h2)]
\* d loss / d score of one sample: softmax(z) - onehot(label)
ScoreGrad(z, label) ==
    LET s == Softmax(ToMicro(z))
    IN Values([c \in 1..Len(z) |->
           (ParamUnit \div Micro) * (s[c] - (IF c = label + 1 THEN Micro ELSE 0))])
\* an affine layer backwards: d is d loss / d output, a the input it read
GradWeight(d, a) ==
    LET m == Len(a)
    IN Values([k \in 1..(m * Len(d)) |->
           Mul(d[((k - 1) \div m) + 1], a[((k - 1) % m) + 1])])
GradInput(w, d, m) ==
    Values([j \in 1..m |-> SumSeq([c \in 1..Len(d) |-> Mul(d[c], w[m * (c - 1) + j])])])
\* F.relu backwards: the gradient passes where the input was positive
ReluBackward(z, d) == Values([k \in 1..Len(z) |-> IF z[k] > 0 THEN d[k] ELSE 0])
\* the pool backwards: the gradient goes to the first maximum of the window
PoolBackward(r, d) ==
    Values([k \in 1..Len(r) |->
        LET w == (k + 1) \div 2
            first == IF r[2 * w - 1] >= r[2 * w] THEN 2 * w - 1 ELSE 2 * w
        IN IF k = first THEN d[w] ELSE 0])
\* backpropagation through the layers l, l - 1, .., 1 of one sample: c is
\* what the forward pass kept, d the gradient on the output of layer l; the
\* gradients on the weight and the bias of the layers 1..l, in list order
RECURSIVE BackProp(_, _, _, _)
BackProp(p, c, l, d) ==
    LET a == CASE l = 5 -> c.h2 [] l = 4 -> c.h1 [] l = 3 -> c.p2
               [] l = 2 -> c.p1 [] l = 1 -> c.inp
        here == <<GradWeight(d, a), d>>
    IN IF l = 1 THEN here
       ELSE LET g == GradInput(p[2 * l - 1], d, Len(a))
                below == CASE l = 5 -> ReluBackward(c.z4, g)
                           [] l = 4 -> ReluBackward(c.z3, g)
                           [] l = 3 -> ReluBackward(c.z2, PoolBackward(c.r2, g))
                           [] l = 2 -> ReluBackward(c.z1, PoolBackward(c.r1, g))
            IN BackProp(p, c, l - 1, below) \o here
\* the gradient of the loss of one sample, tensor by tensor
SampleGrad(p, v, label) ==
    LET c == Activations(p, v)
    IN BackProp(p, c, Len(Layers), ScoreGrad(c.s, label))
\* the gradient of the batch loss, the mean of the sample losses
BatchGrad(p, inp, lab) ==
    LET n == Len(inp.data)
        g == Values([j \in 1..n |-> SampleGrad(p, inp.data[j], lab.data[j])])
    IN Values([t \in 1..Len(p) |-> Values([k \in 1..Len(p[t]) |->
           RoundDiv(SumSeq([j \in 1..n |-> g[j][t][k]]), n)])])

\* elementwise a + b of two tensors of one shape
AddTo(a, b) == Values([k \in 1..Len(a) |-> a[k] + b[k]])
\* a gradient left as it is
KeepGrad(g) == g
\* optimizer.zero_grad()
ZeroGrad(g) == Zeros
\* loss.backward(): .grad accumulates
Backward(g, p, inp, lab) ==
    LET b == BatchGrad(p, inp, lab)
    IN Values([t \in 1..Len(g) |-> AddTo(g[t], b[t])])

(***************************************************************************)
(* optim.SGD(lr=0.001, momentum=0.9).step(), tensor by tensor:             *)
(* buf = grad on the first step, buf = 0.9 * buf + grad afterwards, then   *)
(* param = param - 0.001 * buf.  A tensor without a buffer yet has <<>>.   *)
(***************************************************************************)
NoBuffers == Values([t \in 1..Len(ParamNames) |-> <<>>])
\* buf.mul_(momentum)
ScaleBuffer(buf) ==
    IF buf = <<>> THEN <<>>
    ELSE Values([k \in 1..Len(buf) |->
             buf[k] - RoundDiv((10 - MomentumTenths) * buf[k], 10)])
\* buf = torch.clone(grad) or buf.mul_(momentum).add_(grad)
SgdBuffer(buf, g) == IF buf = <<>> THEN g ELSE AddTo(ScaleBuffer(buf), g)
\* p.add_(buf, alpha=-lr)
SgdWeight(w, buf) == Values([k \in 1..Len(w) |-> w[k] - RoundDiv(buf[k], LrInverse)])
\* the momentum buffers and the parameters after a whole step
StepBuffers(buf, g) == Values([t \in 1..Len(buf) |-> SgdBuffer(buf[t], g[t])])
StepParams(p, buf) == Values([t \in 1..Len(p) |-> SgdWeight(p[t], buf[t])])

(***************************************************************************)
(* A framework call that raises part-way has done some of its in-place     *)
(* updates and not the others.                                             *)
(***************************************************************************)
\* the tensors in done carry the value after the call, the others the
\* value before it
Partly(done, after, before) ==
    Values([t \in 1..Len(before) |-> IF t \in done THEN after[t] ELSE before[t]])
\* loss.backward() interrupted: autograd reaches the layers from fc3 back to
\* conv1; of the layer it was at, the weight, the bias or neither is done
BackwardSets ==
    UNION {{{t \in 1..Len(ParamNames) : t > 2 * l} \cup part :
                part \in {{}, {2 * l - 1}, {2 * l}}} : l \in 1..Len(Layers)}
\* optimizer.step() interrupted: the parameters and the buffers it can leave
StepOutcomes(p, buf, g) ==
    LET n == Len(p)
        nb == StepBuffers(buf, g)
        np == StepParams(p, nb)
        sc == Values([t \in 1..n |-> ScaleBuffer(buf[t])])
        \* the loop over the tensors, stopped at tensor t: its buffer is as
        \* before (s = 0), scaled (1) or updated (2), its parameter as before
        Loop(t, s) ==
            [w |-> Partly(1..(t - 1), np, p),
             buf |-> Values([u \in 1..n |->
                        IF u < t \/ (u = t /\ s = 2) THEN nb[u]
                        ELSE IF u = t /\ s = 1 THEN sc[u] ELSE buf[u]])]
        \* the buffers made by the first step are in a local list until the
        \* loop has ended: no buffer is stored
        Local(t) == [w |-> Partly(1..(t - 1), np, p), buf |-> buf]
        \* list at a time (foreach): all buffers scaled, then all added to,
        \* then all parameters updated
        Scaled(j) == [w |-> p, buf |-> Partly(1..j, sc, buf)]
        Added(j) == [w |-> p, buf |-> Partly(1..j, nb, sc)]
        Updated(k) == [w |-> Partly(1..k, np, p), buf |-> nb]
    IN {Loop(t, s) : t \in 1..n, s \in 0..2}
         \cup (IF buf = NoBuffers
               THEN {Local(t) : t \in 1..n}
               ELSE {Scaled(j) : j \in 0..n} \cup {Added(j) : j \in 0..n}
                       \cup {Updated(k) : k \in 0..(n - 1)})

(***************************************************************************)
(* Reporting.                                                              *)
(***************************************************************************)
\* a line at the first batch of every 2000
PrintDueAtFirst(idx) == idx % PrintEvery = 0
\* i % 2000 == 1999
PrintDue(idx) == idx % PrintEvery = PrintAt
\* '%.3f' % (running_loss / 2000), in thousandths, of a sum rl in units of
\* 2^-16.  The quotient is rounded to the nearest thousandth.  It lies on a
\* half thousandth only when running_loss is an odd integer k; then the
\* double nearest to k / 2000 decides.  With the exponent e such that
\* 2^52 <= (k / 2000) * 2^e < 2^53, the double lies above k / 2000 when the
\* remainder of k * 2^e by 2000 exceeds half of 2000, below when it is less,
\* and on it when the remainder is 0 (then the tie goes to the even digit).
\* As 2000 = 16 * 125 and e > 4, the remainder is 16 * ((k * 2^(e-4)) mod 125).
RECURSIVE Pow2Mod(_, _)
Pow2Mod(e, m) == IF e = 0 THEN 1 % m ELSE (2 * Pow2Mod(e - 1, m)) % m
RECURSIVE ShiftUp(_)
ShiftUp(k) == IF k >= PrintDivisor THEN 0 ELSE 1 + ShiftUp(2 * k)
RECURSIVE ShiftDown(_, _)
ShiftDown(d, k) == IF 2 * d > k THEN 0 ELSE 1 + ShiftDown(2 * d, k)
DoubleRemainder(k) ==
    LET e == 52 + ShiftUp(k) - ShiftDown(PrintDivisor, k)
    IN (Pow2Mod(e - 4, 125) * (k % 125)) % 125
FormatLoss(rl) ==
    LET d == (PrintDivisor * LossUnit) \div Scale
        q == rl \div d
        r == rl % d
        half == d \div 2
        rem == DoubleRemainder(rl \div LossUnit)
    IN IF r < half THEN q
       ELSE IF r > half THEN q + 1
       ELSE IF rem = 0 THEN (IF q % 2 = 1 THEN q + 1 ELSE q)
       ELSE IF rem > 62 THEN q + 1 ELSE q
\* print('[%d, %5d] loss: %.3f' % (epoch + 1, i + 1, running_loss / 2000)),
\* the loss in thousandths
StatsLine(ep, idx, rl) ==
    [kind |-> "stats", epoch |-> ep + 1, batch |-> idx + 1, loss |-> FormatLoss(rl)]
\* running_loss = 0.0 after the line is printed
AfterPrint(rl) == 0
\* '%d %%' % (100 * correct / total)
AccuracyLine(c, t) == [kind |-> "accuracy", percent |-> (Percent * c) \div t]

\* torchvision.utils.make_grid(images): the tiles side by side, padded with 0;
\* a batch of one image is returned as that image
MakeGrid(t) ==
    IF Len(t.data) = 1 THEN Tensor(<<t.data[1]>>, t.device)
    ELSE Tensor([k \in 1..(2 * Len(t.data) + 1) |->
                    IF k % 2 = 1 THEN 0 ELSE t.data[k \div 2]], t.device)
\* img / 2 + 0.5
Unnormalize(t) == Tensor(MapSeq(LAMBDA v : TruncDiv(v, 2) + (Scale \div 2), t.data), t.device)
\* the name of the first label, four times
FirstLabelNames(cls, lab) == [j \in 1..NumLabelsPrinted |-> cls[lab.data[1] + 1]]
\* classes[labels[j]] for j in range(4)
LabelNames(cls, lab) == [j \in 1..NumLabelsPrinted |-> cls[lab.data[j] + 1]]

Raise(cell, exc) == Append(errors, [cell |-> cell, exc |-> exc])

(***************************************************************************)
(* Initial states: before the first cell runs.  Names not yet bound hold a *)
(* placeholder (None, 0 or the empty sequence).                            *)
(***************************************************************************)
Unbound ==
    /\ transform = <<>> /\ trainset = None /\ testset = None
    /\ trainloader = None /\ testloader = None /\ classes = <<>>
    /\ device = "unset" /\ net = None /\ momentum_buffer = 0 /\ grad = 0
    /\ epoch = 0 /\ epochIt = 0 /\ i = 0 /\ batchIt = 0
    /\ images = None /\ inputs = None /\ labels = None /\ outputs = None
    /\ loss = 0 /\ running_loss = 0 /\ correct = 0 /\ total = 0
    /\ x = None /\ fpc = "idle" /\ calls = <<>>
    /\ stdout = <<>> /\ shown = <<>> /\ errors = <<>>
    /\ steps = 0 /\ recent = <<>> /\ lastStep = None /\ epochLoss = 0
    /\ marks = <<>>

FirstCell(nb) == IF nb = "dataset" THEN "ds_transform" ELSE "cell_data"

\* the files of the long run: four shards, the last 1000 samples of each
\* labelled by index, the others by one of two intensity bands
LongTrain == BatchSize * LongBatches
LongShards == 4
LongDisks ==
    { [train |-> LongTrain, test |-> 1, base |-> 0, stride |-> 3,
       shard |-> LongTrain \div LongShards,
       hard |-> (LongTrain \div LongShards) - 1000, bands |-> 2] }
\* the small datasets: one shard, every sample labelled by its band
LabelBases == {0, 4, 7}
SmallDisks ==
    [train : 1..MaxTrain, test : 1..MaxTest, base : LabelBases, stride : {3},
     shard : {LongTrain}, hard : {LongTrain}, bands : {NumClasses}]

\* the draws of torch.randperm(n) taken up: every order of the last
\* MaxPermuted samples, alone or followed by a map that scatters them
Scatter(n) == {m \in {1, 3, n - 1} : m >= 1 /\ Gcd(m, n) = 1}
Draws(n) ==
    {r \in [rank : 0..(Factorial(Min(n, MaxPermuted)) - 1), mult : Scatter(n),
            shift : {0, 1}] : r.shift < n}
DiskOrder == [rank |-> 0, mult |-> 1, shift |-> 0]
\* the draw of the long run: each batch takes one sample of every shard
LongDraw(n) ==
    [rank |-> 0,
     mult |-> CHOOSE m \in ((n \div LongShards) + 1)..((n \div LongShards) + 9) :
                 /\ Gcd(m, n) = 1
                 /\ \A l \in ((n \div LongShards) + 1)..(m - 1) : Gcd(l, n) # 1,
     shift |-> 0]

\* the framework calls of one training iteration that can raise
FaultOps == {"forward", "loss", "backward", "step"}
NoFault == [op |-> "none", epoch |-> 0, i |-> 0]
Faults(d) ==
    {NoFault} \cup [op : FaultOps, epoch : 0..(NumEpochs - 1),
                    i : 0..(((d.train + BatchSize - 1) \div BatchSize) - 1)]

InitSmall ==
    /\ notebook \in {"dataset", "training"}
    /\ disk \in SmallDisks
    /\ rng \in [shuffle : Draws(disk.train), init : 0..MaxInitDraw]
    /\ fault \in Faults(disk)
    /\ notebook = "dataset" => disk.test = 1 /\ rng.init = 0 /\ fault = NoFault
    /\ notebook = "training" => rng.shuffle.rank <= 1 /\ rng.shuffle.shift = 0
    /\ fault # NoFault => disk.test = 1 /\ rng.shuffle = DiskOrder
    /\ disk.test > 1 => rng.shuffle.mult = 1
    /\ pc = FirstCell(notebook)
    /\ Unbound

InitLong ==
    /\ notebook = "training"
    /\ disk \in LongDisks
    /\ rng = [shuffle |-> LongDraw(disk.train), init |-> 0]
    /\ fault = NoFault
    /\ pc = FirstCell(notebook)
    /\ Unbound

Init == InitSmall \/ InitLong

(***************************************************************************)
(* Aula 1/3 - Dataset and DataLoader.ipynb                                 *)
(***************************************************************************)
TransformPipeline == <<"ToTensor", "Normalize">>

DsTransformCell ==
    /\ pc = "ds_transform"
    /\ transform' = TransformPipeline
    /\ pc' = "ds_trainset"
    /\ UNCHANGED <<run, trainset, testset, trainloader, testloader, classes, device,
                   params, loops, locals, pass, output, history>>

DsTrainsetCell ==
    /\ pc = "ds_trainset"
    /\ trainset' = CIFAR10(disk, TRUE, transform)
    /\ stdout' = Append(stdout, Verified)
    /\ pc' = "ds_trainloader"
    /\ UNCHANGED <<run, transform, testset, trainloader, testloader, classes, device,
                   params, loops, locals, pass, shown, errors, history>>

DsTrainloaderCell ==
    /\ pc = "ds_trainloader"
    /\ trainloader' = DataLoader(trainset, BatchSize, TRUE)
    /\ pc' = "ds_check"
    /\ UNCHANGED <<run, transform, trainset, testset, testloader, classes, device,
                   params, loops, locals, pass, output, history>>

(***************************************************************************)
(* The visualisation check, the same statements in both notebooks:         *)
(*   dataiter = iter(trainloader); images, labels = next(dataiter)         *)
(*   imshow(torchvision.utils.make_grid(images))                           *)
(*   print(' '.join('%5s' % classes[labels[j]] for j in range(4)))         *)
(* imshow(img): img = img / 2 + 0.5; npimg = img.numpy(); plt.imshow(...)  *)
(***************************************************************************)
\* a conversion that would accept a tensor on any device
NumpyAnywhere(t) == TRUE
\* img.numpy() needs a host tensor
NumpyOk(t) == t.device = "cpu"

CheckBody(cell, cls, next) ==
    LET first == IterItem(trainloader, rng.shuffle, 1)
        img == Unnormalize(MakeGrid(first[1]))
    IN /\ pc' = next
       /\ IF IterLen(trainloader) = 0
          THEN /\ errors' = Raise(cell, "StopIteration")
               /\ UNCHANGED <<images, labels, shown, stdout>>
          ELSE /\ images' = first[1]
               /\ labels' = first[2]
               /\ IF ~NumpyOk(img)
                  THEN /\ errors' = Raise(cell, "TypeError")
                       /\ UNCHANGED <<shown, stdout>>
                  ELSE /\ shown' = Append(shown, [pixels |-> img.data])
                       /\ IF Len(first[2].data) < NumLabelsPrinted
                          THEN /\ errors' = Raise(cell, "IndexError")
                               /\ UNCHANGED stdout
                          ELSE /\ stdout' = Append(stdout,
                                      [kind |-> "labels",
                                       names |-> LabelNames(cls, first[2])])
                               /\ UNCHANGED errors

DsCheckCell ==
    /\ pc = "ds_check"
    /\ classes' = ClassNames
    /\ CheckBody("ds_check", ClassNames, "end")
    /\ UNCHANGED <<run, transform, trainset, testset, trainloader, testloader, device,
                   params, loops, inputs, outputs, loss, running_loss, correct, total,
                   pass, history>>

(***************************************************************************)
(* The training notebook.                                                  *)
(***************************************************************************)
DataCell ==
    /\ pc = "cell_data"
    /\ transform' = TransformPipeline
    /\ trainset' = CIFAR10(disk, TRUE, TransformPipeline)
    /\ trainloader' = DataLoader(CIFAR10(disk, TRUE, TransformPipeline), BatchSize, TRUE)
    /\ testset' = CIFAR10(disk, FALSE, TransformPipeline)
    /\ testloader' = DataLoader(CIFAR10(disk, FALSE, TransformPipeline), BatchSize, FALSE)
    /\ classes' = ClassNames
    /\ stdout' = stdout \o <<Verified, Verified>>
    /\ pc' = "cell_device"
    /\ UNCHANGED <<run, device, params, loops, locals, pass, shown, errors, history>>

DeviceCell ==
    /\ pc = "cell_device"
    /\ device' = "cuda"
    /\ pc' = "cell_move"
    /\ UNCHANGED <<run, transform, trainset, testset, trainloader, testloader, classes,
                   params, loops, locals, pass, output, history>>

\* [(inputs.to(device), labels.to(device)) for inputs, labels in loader]
MoveAll(loader, dev, r) ==
    IF IterLen(loader) > MaxExplicit
    THEN MovedList(loader, r, dev)
    ELSE PyList([b \in 1..IterLen(loader) |->
                    <<To(IterItem(loader, r, b)[1], dev), To(IterItem(loader, r, b)[2], dev)>>])

MoveCell ==
    /\ pc = "cell_move"
    /\ trainloader' = MoveAll(trainloader, device, rng.shuffle)
    /\ testloader' = MoveAll(testloader, device, rng.shuffle)
    /\ pc' = "cell_check"
    /\ UNCHANGED <<run, transform, trainset, testset, classes, device,
                   params, loops, locals, pass, output, history>>

CheckCell ==
    /\ pc = "cell_check"
    /\ CheckBody("cell_check", classes, "cell_net")
    /\ UNCHANGED <<run, objects, params, loops, inputs, outputs, loss, running_loss,
                   correct, total, pass, history>>

\* nn.Conv2d and nn.Linear draw weight and bias from U(-1 / sqrt(fan_in),
\* 1 / sqrt(fan_in)), fan_in as the code gives it: 3 * 5 * 5, 6 * 5 * 5,
\* 16 * 5 * 5, 120 and 84; the bound of layer l in thousandths
InitBound(l) ==
    CASE l = 1 -> 115
      [] l = 2 -> 81
      [] l = 3 -> 50
      [] l = 4 -> 91
      [] l = 5 -> 109
\* the k-th value of tensor t in the d-th draw of the initial parameters,
\* on the grid of thousandths within the bound of its layer
InitValue(d, t, k) ==
    LET b == InitBound((t + 1) \div 2)
    IN ((((d + 1) * (37 * k + 11) + 53 * t) % (2 * b + 1)) - b) * (ParamUnit \div Scale)
\* Net(): every layer draws its weight and its bias from the generator
InitParams(d) ==
    Values([t \in 1..Len(ParamNames) |->
        Values([k \in 1..Numel(t) |-> InitValue(d, t, k)])])

\* net = Net().to('cuda')
NetCell ==
    /\ pc = "cell_net"
    /\ net' = [w |-> InitParams(rng.init), device |-> "cuda"]
    /\ lastStep' = InitParams(rng.init)
    /\ pc' = "cell_optim"
    /\ UNCHANGED <<run, objects, momentum_buffer, grad, loops, locals, pass, output,
                   steps, recent, epochLoss, marks>>

\* criterion = nn.CrossEntropyLoss(); optimizer = optim.SGD(net.parameters(), ...)
OptimCell ==
    /\ pc = "cell_optim"
    /\ momentum_buffer' = NoBuffers
    /\ grad' = Zeros
    /\ pc' = "cell_cuda"
    /\ UNCHANGED <<run, objects, net, loops, locals, pass, output, history>>

\* print(torch.cuda.is_available())
CudaCell ==
    /\ pc = "cell_cuda"
    /\ stdout' = Append(stdout, [kind |-> "bool", value |-> TRUE])
    /\ pc' = "cell_train"
    /\ UNCHANGED <<run, objects, params, loops, locals, pass, shown, errors, history>>

(***************************************************************************)
(* The training cell.                                                      *)
(***************************************************************************)
\* a loop of three epochs
ThreeEpochs(it) == it < 3
\* range(2) has another value
MoreEpochs(it) == it < NumEpochs
\* a loop body that calls backward right after the forward pass
SkipLoss(p) ==
    CASE p = "zero_grad" -> "forward"
      [] p = "forward" -> "backward"
      [] p = "loss" -> "backward"
      [] p = "backward" -> "step"
      [] p = "step" -> "stats"
      [] p = "stats" -> "for_batch"
\* the statement after statement p in the body of the inner loop
Then(p) ==
    CASE p = "zero_grad" -> "forward"
      [] p = "forward" -> "loss"
      [] p = "loss" -> "backward"
      [] p = "backward" -> "step"
      [] p = "step" -> "stats"
      [] p = "stats" -> "for_batch"
\* running_loss = 0.0 at the top of an epoch
EpochStart(rl) == 0
\* the framework call op of the current iteration raises
Faulty(op) == fault.op = op /\ fault.epoch = epoch /\ fault.i = i

Log(op, ep, idx) ==
    LET r == Append(recent, [op |-> op, epoch |-> ep, i |-> idx])
    IN IF Len(r) > RecentLen THEN Tail(r) ELSE r

\* a loop that would catch the exception and go on with the next batch
CatchAndContinue(op) ==
    /\ errors' = Raise("cell_train", "RuntimeError")
    /\ pc' = "for_batch"
    /\ UNCHANGED <<run, objects, params, loops, locals, pass, stdout, shown, history>>
\* The framework call op raised.  Nothing in the loop catches the exception:
\* it leaves the cell.  The call's assignment does not happen, but what the
\* call had already written in place stays: backward() may have accumulated
\* the .grad of some tensors, and step() may have updated some momentum
\* buffers and some parameters (not all: then it would have completed).
TrainFail(op) ==
    /\ errors' = Raise("cell_train", "RuntimeError")
    /\ pc' = "cell_eval"
    /\ IF op = "backward"
       THEN /\ \E done \in BackwardSets :
                 grad' = Partly(done, Backward(grad, net.w, inputs, labels), grad)
            /\ UNCHANGED <<net, momentum_buffer>>
       ELSE IF op = "step"
       THEN /\ \E o \in StepOutcomes(net.w, momentum_buffer, grad) :
                 /\ momentum_buffer' = o.buf
                 /\ net' = [net EXCEPT !.w = o.w]
            /\ UNCHANGED grad
       ELSE UNCHANGED params
    /\ UNCHANGED <<run, objects, loops, locals, pass, stdout, shown, history>>

\* for epoch in range(2): ...   print('Finished Training')
ForEpoch ==
    /\ pc \in {"cell_train", "for_epoch"}
    /\ LET it == IF pc = "cell_train" THEN 0 ELSE epochIt
       IN IF MoreEpochs(it)
          THEN /\ epoch' = it
               /\ epochIt' = it + 1
               /\ running_loss' = EpochStart(running_loss)
               /\ batchIt' = 0
               /\ epochLoss' = 0
               /\ pc' = "for_batch"
               /\ UNCHANGED stdout
          ELSE /\ stdout' = Append(stdout, [kind |-> "finished"])
               /\ pc' = "cell_eval"
               /\ UNCHANGED <<epoch, epochIt, running_loss, batchIt, epochLoss>>
    /\ UNCHANGED <<run, objects, params, i, images, inputs, labels, outputs, loss,
                   correct, total, pass, shown, errors, steps, recent, lastStep, marks>>

\* for i, data in enumerate(trainloader, 0): inputs, labels = data
\*     optimizer.zero_grad()
ForBatch ==
    /\ pc = "for_batch"
    /\ IF batchIt < IterLen(trainloader)
       THEN /\ i' = batchIt
            /\ batchIt' = batchIt + 1
            /\ inputs' = IterItem(trainloader, rng.shuffle, batchIt + 1)[1]
            /\ labels' = IterItem(trainloader, rng.shuffle, batchIt + 1)[2]
            /\ grad' = ZeroGrad(grad)
            /\ recent' = Log("zero_grad", epoch, batchIt)
            /\ pc' = Then("zero_grad")
       ELSE /\ pc' = "for_epoch"
            /\ UNCHANGED <<i, batchIt, inputs, labels, grad, recent>>
    /\ UNCHANGED <<run, objects, net, momentum_buffer, epoch, epochIt, images, outputs,
                   loss, running_loss, correct, total, pass, output, steps, lastStep,
                   epochLoss, marks>>

\* outputs = net(inputs): the call enters Net.forward with x bound to inputs
ForwardStep ==
    /\ pc = "forward" /\ fpc = "idle"
    /\ IF Faulty("forward") \/ inputs.device # net.device
       THEN TrainFail("forward")
       ELSE /\ x' = inputs
            /\ calls' = <<>>
            /\ fpc' = "conv1"
            /\ UNCHANGED <<pc, run, objects, params, loops, locals, output, history>>

(***************************************************************************)
(* Net.forward(x): one action per statement.  A statement rebinds x to the *)
(* result of its calls on every image of the batch.                        *)
(***************************************************************************)
\* a forward pass that applies fc2 before fc1
AfterFcSwapped(s) ==
    CASE s = "conv1" -> "conv2"
      [] s = "conv2" -> "view"
      [] s = "view" -> "fc2"
      [] s = "fc2" -> "fc1"
      [] s = "fc1" -> "fc3"
      [] s = "fc3" -> "return"
\* the statement after statement s of Net.forward
After(s) ==
    CASE s = "conv1" -> "conv2"
      [] s = "conv2" -> "view"
      [] s = "view" -> "fc1"
      [] s = "fc1" -> "fc2"
      [] s = "fc2" -> "fc3"
      [] s = "fc3" -> "return"

\* statement s of Net.forward on one image a of the batch
Line(s, a) ==
    CASE s = "conv1" -> Conv1Line(net.w, a)
      [] s = "conv2" -> Conv2Line(net.w, a)
      [] s = "view" -> View(a)
      [] s = "fc1" -> Fc1Line(net.w, a)
      [] s = "fc2" -> Fc2Line(net.w, a)
      [] s = "fc3" -> Fc3(net.w, a)
\* one statement of Net.forward: x is rebound to the result of its calls
Statement(name, made) ==
    /\ fpc = name
    /\ x' = Tensor(Values([j \in 1..Len(x.data) |-> Line(name, x.data[j])]), x.device)
    /\ calls' = calls \o made
    /\ fpc' = After(name)
    /\ UNCHANGED <<pc, run, objects, params, loops, locals, output, history>>

\* x = self.pool(F.relu(self.conv1(x)))
Conv1Stmt == Statement("conv1", <<"conv1", "relu", "pool">>)
\* x = self.pool(F.relu(self.conv2(x)))
Conv2Stmt == Statement("conv2", <<"conv2", "relu", "pool">>)
\* x = x.view(-1, 16 * 5 * 5)
ViewStmt == Statement("view", <<"view">>)
\* x = F.relu(self.fc1(x))
Fc1Stmt == Statement("fc1", <<"fc1", "relu">>)
\* x = F.relu(self.fc2(x))
Fc2Stmt == Statement("fc2", <<"fc2", "relu">>)
\* x = self.fc3(x)
Fc3Stmt == Statement("fc3", <<"fc3">>)
\* return x: the caller binds outputs
ForwardReturn ==
    /\ fpc = "return"
    /\ outputs' = x
    /\ fpc' = "idle"
    /\ IF pc = "forward"
       THEN /\ recent' = Log("forward", epoch, i)
            /\ pc' = Then("forward")
       ELSE /\ pc' = "eval_count"
            /\ UNCHANGED recent
    /\ UNCHANGED <<run, objects, params, loops, images, inputs, labels, loss,
                   running_loss, correct, total, x, calls, output, steps, lastStep,
                   epochLoss, marks>>

\* loss = criterion(outputs, labels)
LossStep ==
    /\ pc = "loss"
    /\ IF Faulty("loss")
       THEN TrainFail("loss")
       ELSE /\ loss' = Criterion(outputs, labels)
            /\ recent' = Log("loss", epoch, i)
            /\ pc' = Then("loss")
            /\ UNCHANGED <<run, objects, params, loops, images, inputs, labels, outputs,
                           running_loss, correct, total, pass, output, steps, lastStep,
                           epochLoss, marks>>

\* loss.backward()
BackwardStep ==
    /\ pc = "backward"
    /\ IF Faulty("backward")
       THEN TrainFail("backward")
       ELSE /\ grad' = Backward(grad, net.w, inputs, labels)
            /\ recent' = Log("backward", epoch, i)
            /\ pc' = Then("backward")
            /\ UNCHANGED <<run, objects, net, momentum_buffer, loops, locals, pass,
                           output, steps, lastStep, epochLoss, marks>>

\* optimizer.step()
OptimizerStep ==
    /\ pc = "step"
    /\ IF Faulty("step")
       THEN TrainFail("step")
       ELSE LET buf == StepBuffers(momentum_buffer, grad)
                new == StepParams(net.w, buf)
            IN /\ momentum_buffer' = buf
               /\ net' = [net EXCEPT !.w = new]
               /\ lastStep' = new
               /\ steps' = steps + 1
               /\ recent' = Log("step", epoch, i)
               /\ pc' = Then("step")
               /\ UNCHANGED <<run, objects, grad, loops, locals, pass, output,
                              epochLoss, marks>>

\* running_loss += loss.item(); if i % 2000 == 1999: print(...); running_loss = 0.0
Statistics ==
    /\ pc = "stats"
    /\ IF PrintDue(i)
       THEN /\ stdout' = Append(stdout, StatsLine(epoch, i, running_loss + loss))
            /\ running_loss' = AfterPrint(running_loss + loss)
       ELSE /\ running_loss' = running_loss + loss
            /\ UNCHANGED stdout
    /\ epochLoss' = epochLoss + loss
    /\ marks' = IF (i + 1) % Window = 0
                THEN Append(marks, [epoch |-> epoch, batch |-> i + 1,
                                    sum |-> epochLoss + loss])
                ELSE marks
    /\ pc' = Then("stats")
    /\ UNCHANGED <<run, objects, params, loops, images, inputs, labels, outputs, loss,
                   correct, total, pass, shown, errors, steps, recent, lastStep>>

(***************************************************************************)
(* The evaluation cell.                                                    *)
(***************************************************************************)
\* _, predicted = torch.max(outputs.data, 1)
Predicted(out) == MapSeq(ArgMax, out.data)
\* a count of every prediction, right or wrong
CountAll(pred, lab) == Len(pred)
\* (predicted == labels).sum().item()
CountEqual(pred, lab) == Cardinality({j \in 1..Len(pred) : pred[j] = lab.data[j]})

\* correct = 0; total = 0; with torch.no_grad(): for data in testloader:
EvalStart ==
    /\ pc = "cell_eval"
    /\ correct' = 0
    /\ total' = 0
    /\ batchIt' = 0
    /\ pc' = "eval_batch"
    /\ UNCHANGED <<run, objects, params, epoch, epochIt, i, images, inputs, labels,
                   outputs, loss, running_loss, pass, output, history>>

\* for data in testloader: images, labels = data; outputs = net(images): the
\* call enters Net.forward with x bound to images
EvalBatch ==
    /\ pc = "eval_batch"
    /\ IF batchIt < IterLen(testloader)
       THEN LET data == IterItem(testloader, rng.shuffle, batchIt + 1)
            IN /\ images' = data[1]
               /\ labels' = data[2]
               /\ batchIt' = batchIt + 1
               /\ x' = data[1]
               /\ calls' = <<>>
               /\ fpc' = "conv1"
               /\ pc' = "eval_forward"
       ELSE /\ pc' = "eval_print"
            /\ UNCHANGED <<images, labels, batchIt, pass>>
    /\ UNCHANGED <<run, objects, params, epoch, epochIt, i, inputs, outputs, loss,
                   running_loss, correct, total, output, history>>

\* _, predicted = torch.max(outputs.data, 1); total += labels.size(0)
\* correct += (predicted == labels).sum().item()
EvalCount ==
    /\ pc = "eval_count"
    /\ total' = total + Len(labels.data)
    /\ correct' = correct + CountEqual(Predicted(outputs), labels)
    /\ pc' = "eval_batch"
    /\ UNCHANGED <<run, objects, params, loops, images, inputs, labels, outputs, loss,
                   running_loss, pass, output, history>>

\* print('Accuracy of the network on the 10000 test images: %d %%' % (...))
EvalPrint ==
    /\ pc = "eval_print"
    /\ IF total = 0
       THEN /\ errors' = Raise("cell_eval", "ZeroDivisionError")
            /\ UNCHANGED stdout
       ELSE /\ stdout' = Append(stdout, AccuracyLine(correct, total))
            /\ UNCHANGED errors
    /\ pc' = "end"
    /\ UNCHANGED <<run, objects, params, loops, locals, pass, shown, history>>

Next ==
    \/ DsTransformCell
    \/ DsTrainsetCell
    \/ DsTrainloaderCell
    \/ DsCheckCell
    \/ DataCell
    \/ DeviceCell
    \/ MoveCell
    \/ CheckCell
    \/ NetCell
    \/ OptimCell
    \/ CudaCell
    \/ ForEpoch
    \/ ForBatch
    \/ ForwardStep
    \/ Conv1Stmt
    \/ Conv2Stmt
    \/ ViewStmt
    \/ Fc1Stmt
    \/ Fc2Stmt
    \/ Fc3Stmt
    \/ ForwardReturn
    \/ LossStep
    \/ BackwardStep
    \/ OptimizerStep
    \/ Statistics
    \/ EvalStart
    \/ EvalBatch
    \/ EvalCount
    \/ EvalPrint

Spec == Init /\ [][Next]_vars

(***************************************************************************)
(* The transform pipeline on its own: an image of a few values goes        *)
(* through ToTensor and then through Normalize.                            *)
(***************************************************************************)
\* pixel values of the images put through the pipeline
PixelValues == {0, 51, 128, 204, 255}
RawImages == UNION {[1..n -> PixelValues] : n \in 1..MaxPixels}
\* transforms.ToTensor() on a whole image
ToTensorImage(raw) == Tensor(MapSeq(ToTensor, raw), "cpu")
\* transforms.Normalize((0.5, 0.5, 0.5), (0.5, 0.5, 0.5)) on a whole tensor
NormalizeTensor(t) == Tensor(MapSeq(Normalize, t.data), t.device)

InitNormalize ==
    /\ notebook \in {"dataset", "training"}
    /\ pc = "normalize"
    /\ disk = [train |-> 1, test |-> 1, base |-> 0, stride |-> 3,
               shard |-> LongTrain, hard |-> LongTrain, bands |-> NumClasses]
    /\ rng = [shuffle |-> DiskOrder, init |-> 0]
    /\ fault = NoFault
    /\ images \in {ToTensorImage(raw) : raw \in RawImages}
    /\ transform = TransformPipeline /\ trainset = None /\ testset = None
    /\ trainloader = None /\ testloader = None /\ classes = <<>>
    /\ device = "unset" /\ net = None /\ momentum_buffer = 0 /\ grad = 0
    /\ epoch = 0 /\ epochIt = 0 /\ i = 0 /\ batchIt = 0
    /\ inputs = None /\ labels = None /\ outputs = None
    /\ loss = 0 /\ running_loss = 0 /\ correct = 0 /\ total = 0
    /\ x = None /\ fpc = "idle" /\ calls = <<>>
    /\ stdout = <<>> /\ shown = <<>> /\ errors = <<>>
    /\ steps = 0 /\ recent = <<>> /\ lastStep = None /\ epochLoss = 0
    /\ marks = <<>>

\* the Normalize step of the pipeline, applied to the tensor ToTensor made
NormalizeStep ==
    /\ pc = "normalize"
    /\ inputs' = NormalizeTensor(images)
    /\ pc' = "normalized"
    /\ UNCHANGED <<run, objects, params, loops, images, labels, outputs, loss,
                   running_loss, correct, total, pass, output, history>>

NextNormalize == NormalizeStep

SpecNormalize == InitNormalize /\ [][NextNormalize]_vars

(***************************************************************************)
(* Vocabulary of the properties.                                           *)
(***************************************************************************)
Lines(kind) == SelectSeq(stdout, LAMBDA l : l.kind = kind)
TrainErr == \E k \in 1..Len(errors) : errors[k].cell = "cell_train"
LoopBody == {"forward", "loss", "backward", "step", "stats"}
AfterTraining == {"cell_eval", "eval_batch", "eval_forward", "eval_count",
                  "eval_print", "end"}
NTrain == IterLen(trainloader)
TrainBatch(k) == IterItem(trainloader, rng.shuffle, k)

(***************************************************************************)
(* C1: the training cell runs exactly two epochs; each epoch visits every  *)
(* batch of trainloader once, in list order, with one optimizer step per   *)
(* batch: the step count is epoch * N + i while batch i is being processed *)
(* and 2 * N when the loop ends; 'Finished Training' is printed once, and  *)
(* only after all 2 * N steps.                                             *)
(***************************************************************************)
C1_TwoEpochs ==
    /\ pc \in LoopBody =>
          /\ epoch \in {0, 1} /\ i \in 0..(NTrain - 1)
          /\ inputs = TrainBatch(i + 1)[1] /\ labels = TrainBatch(i + 1)[2]
          /\ steps = epoch * NTrain + i + (IF pc = "stats" THEN 1 ELSE 0)
    /\ Len(Lines("finished")) <= 1
    /\ Len(Lines("finished")) = 1 => pc \in AfterTraining /\ steps = 2 * NTrain
    /\ (notebook = "training" /\ pc \in AfterTraining /\ ~TrainErr)
          => Len(Lines("finished")) = 1

C1_Witness ==
    /\ pc = "end" /\ Len(Lines("finished")) = 1
    /\ NTrain = 2 /\ steps = 4

(***************************************************************************)
(* C2: in every training iteration the framework calls happen in the order *)
(* zero_grad, forward, loss, backward, step, all on the same batch: each   *)
(* call directly follows its predecessor in that order, a zero_grad        *)
(* follows only the step of the batch before, the forward ran on this      *)
(* batch's inputs and the loss was computed from its outputs and labels.   *)
(***************************************************************************)
Before(op) ==
    CASE op = "forward" -> "zero_grad"
      [] op = "loss" -> "forward"
      [] op = "backward" -> "loss"
      [] op = "step" -> "backward"
      [] op = "zero_grad" -> "step"

C2_IterationOrder ==
    /\ \A k \in 2..Len(recent) :
          /\ recent[k - 1].op = Before(recent[k].op)
          /\ IF recent[k].op = "zero_grad"
             THEN <<recent[k - 1].epoch, recent[k - 1].i>> # <<recent[k].epoch, recent[k].i>>
             ELSE <<recent[k - 1].epoch, recent[k - 1].i>> = <<recent[k].epoch, recent[k].i>>
    /\ (Len(recent) > 0 /\ Len(recent) < RecentLen) =>
          recent[1] = [op |-> "zero_grad", epoch |-> 0, i |-> 0]
    /\ (Len(recent) > 0 /\ recent[Len(recent)].op = "step") => Len(recent) >= 5
    /\ pc \in {"loss", "backward", "step"} =>
          outputs = NetCall(net, TrainBatch(i + 1)[1])
    /\ pc = "backward" => loss = Criterion(outputs, TrainBatch(i + 1)[2])

C2_Witness ==
    /\ Len(recent) = RecentLen
    /\ recent[Len(recent)] = [op |-> "step", epoch |-> 1, i |-> 1]

(***************************************************************************)
(* C3: when optimizer.step() runs, the accumulated gradient is the         *)
(* gradient of the current batch's loss alone: nothing of an earlier batch *)
(* or epoch is left in it.                                                 *)
(***************************************************************************)
C3_GradientOfThisBatch ==
    pc = "step" =>
        grad = BatchGrad(net.w, TrainBatch(i + 1)[1], TrainBatch(i + 1)[2])

C3_Witness ==
    /\ pc = "step" /\ steps >= 1
    /\ momentum_buffer # NoBuffers /\ grad # Zeros
    /\ \A t \in 1..Len(grad) : \E k \in 1..Len(grad[t]) : grad[t][k] # 0

(***************************************************************************)
(* C4: a statistics line is printed exactly when the 1-based batch index   *)
(* within the epoch is a multiple of 2000; it shows the 1-based epoch, the *)
(* 1-based batch index, and the sum of the losses of the last 2000 batches *)
(* of the current epoch divided by 2000, to three decimals (the shown      *)
(* value is within half a thousandth of the quotient); running_loss is     *)
(* zero right after each line.                                             *)
(***************************************************************************)
\* the sum of the epoch's losses up to the multiple of 2000 before mark k
SumBefore(k) ==
    IF k > 1 /\ marks[k - 1].epoch = marks[k].epoch THEN marks[k - 1].sum ELSE 0
\* 2000 times a thousandth, in the unit of the sums
PerThousandth == (2000 * LossUnit) \div 1000

C4_StatisticsLines ==
    LET sl == Lines("stats") IN
    /\ Len(sl) = Len(marks)
    /\ \A k \in 1..Len(sl) :
          /\ marks[k].batch % 2000 = 0
          /\ sl[k].epoch = marks[k].epoch + 1
          /\ sl[k].batch = marks[k].batch
          /\ 2 * Abs(PerThousandth * sl[k].loss - (marks[k].sum - SumBefore(k)))
                <= PerThousandth
    /\ (pc = "for_batch" /\ batchIt > 0 /\ batchIt % 2000 = 0) => running_loss = 0

\* the long run: 4500 batches an epoch, so that 500 batches follow the last
\* line of the first epoch and the third line shows the first 2000 batches
\* of the second epoch alone
C4_Witness ==
    LET sl == Lines("stats") IN
    /\ pc = "end" /\ Len(sl) = 4
    /\ NTrain % 2000 = 500
    /\ <<sl[1].epoch, sl[1].batch, sl[1].loss>> = <<1, 2000, 1377>>
    /\ <<sl[2].epoch, sl[2].batch, sl[2].loss>> = <<1, 4000, 1472>>
    /\ <<sl[3].epoch, sl[3].batch, sl[3].loss>> = <<2, 2000, 1180>>
    /\ <<sl[4].epoch, sl[4].batch, sl[4].loss>> = <<2, 4000, 1479>>
    /\ marks[3].sum = 154667715

(***************************************************************************)
(* C5: the loss the training loop reports is monotonically descending:     *)
(* every printed running-average loss is at most the one printed before    *)
(* it, across the whole run.                                               *)
(***************************************************************************)
C5_AsStated ==
    LET sl == Lines("stats") IN
    \A k \in 2..Len(sl) : sl[k].loss <= sl[k - 1].loss

(***************************************************************************)
(* C6: the evaluation cell counts in total the test images and in correct  *)
(* the images whose predicted class, the index of the maximum of the 10    *)
(* outputs, equals the label, so 0 <= correct <= total; the printed        *)
(* percentage is the integer part of 100 * correct / total, within 0..100. *)
(***************************************************************************)
\* label is the index of the maximum of the outputs z (the first on a tie)
IsPrediction(z, label) ==
    /\ \A c \in 1..Len(z) : z[c] <= z[label + 1]
    /\ \A c \in 1..label : z[c] < z[label + 1]
\* the samples of test batch b that the network classifies as labelled
Hits(b) ==
    LET item == IterItem(testloader, 0, b) IN
    {j \in 1..Len(item[1].data) :
        IsPrediction(Forward(net.w, item[1].data[j]), item[2].data[j])}
RECURSIVE HitsUpTo(_)
HitsUpTo(b) == IF b = 0 THEN 0 ELSE HitsUpTo(b - 1) + Cardinality(Hits(b))
RECURSIVE SeenUpTo(_)
SeenUpTo(b) ==
    IF b = 0 THEN 0
    ELSE SeenUpTo(b - 1) + Len(IterItem(testloader, 0, b)[2].data)

C6_Accuracy ==
    LET acc == Lines("accuracy") IN
    /\ pc \in {"eval_batch", "eval_print"} =>
          /\ total = SeenUpTo(batchIt) /\ correct = HitsUpTo(batchIt)
          /\ 0 <= correct /\ correct <= total
    /\ pc \in {"eval_forward", "eval_count"} =>
          /\ total = SeenUpTo(batchIt - 1) /\ correct = HitsUpTo(batchIt - 1)
    /\ pc = "eval_print" => total = disk.test
    /\ Len(acc) <= 1
    /\ Len(acc) = 1 =>
          /\ total = disk.test /\ correct = HitsUpTo(IterLen(testloader))
          /\ acc[1].percent \in 0..100
          /\ acc[1].percent * total <= 100 * correct
          /\ 100 * correct < (acc[1].percent + 1) * total

C6_Witness ==
    /\ pc = "end" /\ Len(Lines("accuracy")) = 1
    /\ batchIt = 2 /\ total = 6 /\ correct = 1
    /\ Lines("accuracy")[1].percent = 16

(***************************************************************************)
(* C7: after the device-move cell, trainloader and testloader are finite   *)
(* lists holding one (inputs, labels) pair per batch that one pass over    *)
(* the original DataLoader serves, in the order served, both tensors on    *)
(* the accelerator; all of it is moved before the first training step.     *)
(***************************************************************************)
OnDevice(served) == <<[data |-> served[1].data, device |-> "cuda"],
                      [data |-> served[2].data, device |-> "cuda"]>>
ListOf(lst, loader, r) ==
    IF lst.kind = "list"
    THEN /\ Len(lst.items) = NumBatches(loader)
         /\ \A b \in 1..Len(lst.items) :
               lst.items[b] = OnDevice(ServedBatch(loader, r, b))
    ELSE /\ lst.kind = "moved" /\ lst.of = loader
         /\ lst.draw = r /\ lst.device = "cuda"
         /\ IterItem(lst, r, 1) = OnDevice(ServedBatch(loader, r, 1))

\* right after the device-move cell
C7_LoadersBecomeLists ==
    (notebook = "training" /\ pc = "cell_check") =>
        /\ ListOf(trainloader,
                  DataLoader(CIFAR10(disk, TRUE, TransformPipeline), 4, TRUE),
                  rng.shuffle)
        /\ ListOf(testloader,
                  DataLoader(CIFAR10(disk, FALSE, TransformPipeline), 4, FALSE), 0)

\* no training step before the device-move cell has run
C7_MovedBeforeTraining ==
    (notebook = "training" /\ pc \in {"cell_data", "cell_device", "cell_move"}) =>
        steps = 0

\* the lists stay as the device-move cell left them
C7_ListsKept ==
    (notebook = "training" /\ pc \notin {"cell_data", "cell_device", "cell_move"}) =>
        trainloader' = trainloader /\ testloader' = testloader

C7_ListsOnDevice ==
    /\ []C7_LoadersBecomeLists
    /\ []C7_MovedBeforeTraining
    /\ [][C7_ListsKept]_vars

C7_Witness ==
    /\ notebook = "training" /\ pc = "forward" /\ steps = 0
    /\ trainloader.kind = "list" /\ Len(trainloader.items) = 2
    /\ testloader.kind = "list" /\ Len(testloader.items) = 2
    /\ rng.shuffle.rank > 0

(***************************************************************************)
(* C8, as stated: an error raised in a training step ends the training     *)
(* loop at once: the failed batch is not retried, no later batch or epoch  *)
(* is processed, 'Finished Training' is not printed, and the parameters    *)
(* stay as the last completed optimizer step left them.                    *)
(***************************************************************************)
C8_AsStated ==
    [][TrainErr' =>
          /\ pc' \in AfterTraining
          /\ steps' = steps /\ epoch' = epoch /\ i' = i
          /\ steps' = epoch' * NTrain + i'
          /\ Len(Lines("finished"))' = 0
          /\ net'.w = lastStep']_vars

(***************************************************************************)
(* C8, amended: an error raised in a training step ends the training loop  *)
(* at once: the failed batch is not retried, no later batch or epoch is    *)
(* processed, 'Finished Training' is not printed, and nothing changes the  *)
(* parameters or the optimizer state after the error.  When forward, loss  *)
(* or backward raised, the parameters are as the last completed optimizer  *)
(* step left them; when optimizer.step() itself raised, the update of that *)
(* step may be applied to some parameter tensors and not to the others.    *)
(***************************************************************************)
C8_ErrorEndsTraining ==
    [][TrainErr' =>
          /\ pc' \in AfterTraining
          /\ steps' = steps /\ epoch' = epoch /\ i' = i
          /\ steps' = epoch' * NTrain + i'
          /\ Len(Lines("finished"))' = 0
          /\ TrainErr => (net' = net /\ momentum_buffer' = momentum_buffer
                            /\ grad' = grad)
          /\ fault.op # "step" => (net' = net /\ net'.w = lastStep')]_vars

\* step() of the second batch of the second epoch raised after it had
\* updated the weight of conv1 and before it updated any other tensor
C8_Witness ==
    /\ TrainErr /\ pc = "end"
    /\ steps = 3 /\ epoch = 1 /\ i = 1
    /\ fault.op = "step"
    /\ net.w[1] # lastStep[1]
    /\ \A t \in 2..Len(ParamNames) : net.w[t] = lastStep[t]

(***************************************************************************)
(* C9: in the dataset notebook, with a first batch of 4 images, the        *)
(* visualisation cell shows the four images in one figure and prints       *)
(* exactly four class names, the j-th being classes[labels[j]] of the j-th *)
(* image shown.                                                            *)
(***************************************************************************)
C9_FourImagesFourNames ==
    (notebook = "dataset" /\ pc = "end" /\ disk.train >= 4) =>
        LET lab == Lines("labels")
            first == [j \in 1..4 |-> SamplerOrder(trainloader, rng.shuffle, j)]
        IN  /\ errors = <<>>
            /\ Len(shown) = 1 /\ Len(lab) = 1
            /\ stdout = <<Verified, lab[1]>>
            /\ Len(lab[1].names) = 4
            /\ \A j \in 1..4 :
                  /\ lab[1].names[j] = ClassNames[RawLabel(trainset, first[j]) + 1]
                  /\ lab[1].names[j] = classes[labels.data[j] + 1]
                  /\ shown[1].pixels[2 * j] = ToTensor(RawImage(trainset, first[j]))

\* four different images with four different names, served out of disk order
C9_Witness ==
    /\ notebook = "dataset" /\ pc = "end" /\ disk.train = 5
    /\ Len(Lines("labels")) = 1
    /\ Cardinality({Lines("labels")[1].names[j] : j \in 1..4}) = 4
    /\ Cardinality({shown[1].pixels[2 * j] : j \in 1..4}) = 4
    /\ rng.shuffle.rank > 0 /\ rng.shuffle.mult > 1

(***************************************************************************)
(* C10: in the training notebook the check cell fails at the img.numpy()   *)
(* conversion with a TypeError: no image is shown, no label line is        *)
(* printed, and trainloader, testloader and classes are left unchanged.    *)
(***************************************************************************)
C10_Failed ==
    (notebook = "training" /\ pc \notin {"cell_data", "cell_device", "cell_move", "cell_check"}) =>
        /\ Len(errors) >= 1
        /\ errors[1] = [cell |-> "cell_check", exc |-> "TypeError"]
        /\ shown = <<>>
        /\ Len(Lines("labels")) = 0

C10_CheckCellFails ==
    /\ []C10_Failed
    /\ [][pc = "cell_check" =>
             /\ trainloader' = trainloader /\ testloader' = testloader
             /\ classes' = classes]_vars

C10_Witness ==
    /\ notebook = "training" /\ pc = "cell_net"
    /\ errors = <<[cell |-> "cell_check", exc |-> "TypeError"]>>
    /\ trainloader.kind = "list" /\ Len(trainloader.items) = 2
    /\ images.device = "cuda"

(***************************************************************************)
(* C11: the network is a fixed composition of five parameterised layers in *)
(* the order conv1, conv2, fc1, fc2, fc3: conv1, ReLU, pool; conv2, ReLU,  *)
(* the same pool; flatten; fc1, ReLU; fc2, ReLU; fc3 with no activation    *)
(* after it; the order does not depend on the input.  Stated of the calls  *)
(* a forward pass has made when it stands before each statement, of the    *)
(* values x holds there, and of the rows the pass returns, in training and *)
(* in evaluation, whatever the image.                                      *)
(***************************************************************************)
ForwardCalls ==
    <<"conv1", "relu", "pool", "conv2", "relu", "pool", "view",
      "fc1", "relu", "fc2", "relu", "fc3">>
\* the number of calls made when the pass stands before statement s
Made(s) ==
    CASE s = "conv1" -> 0
      [] s = "conv2" -> 3
      [] s = "view" -> 6
      [] s = "fc1" -> 7
      [] s = "fc2" -> 9
      [] s = "fc3" -> 11
      [] s = "return" -> 12
\* the batch the pass in progress was called on
PassInput ==
    IF pc \in {"forward", "loss", "backward", "step"} THEN inputs ELSE images

\* what the layers before statement s, applied in the order of the claim,
\* make of the image v under the parameters p
UpTo(s, p, v) ==
    LET a1 == Pool(Relu(Conv1(p, Input(v))))
        a2 == Pool(Relu(Conv2(p, a1)))
        a3 == Relu(Fc1(p, View(a2)))
        a4 == Relu(Fc2(p, a3))
    IN CASE s = "conv1" -> v
         [] s = "conv2" -> a1
         [] s \in {"view", "fc1"} -> a2
         [] s = "fc2" -> a3
         [] s = "fc3" -> a4
         [] s = "return" -> Fc3(p, a4)

C11_DuringPass ==
    fpc # "idle" =>
        /\ pc \in {"forward", "eval_forward"}
        /\ calls = SubSeq(ForwardCalls, 1, Made(fpc))
        /\ Len(x.data) = Len(PassInput.data)
        /\ \A j \in 1..Len(x.data) :
              LET px == PassInput.data[j]
                  row == x.data[j]
              IN  /\ row = UpTo(fpc, net.w, px)
                  \* conv1, ReLU, pool: each value is the larger of two
                  \* neighbouring channels of conv1, or 0
                  /\ fpc = "conv2" =>
                        /\ Len(row) = Len(net.w[2]) \div 2
                        /\ \A k \in 1..Len(row) :
                              LET za == Mul(net.w[1][2 * k - 1], px * (ParamUnit \div Scale))
                                            + net.w[2][2 * k - 1]
                                  zb == Mul(net.w[1][2 * k], px * (ParamUnit \div Scale))
                                            + net.w[2][2 * k]
                              IN row[k] = MaxOf(<<za, zb, 0>>)
                  \* conv2, ReLU, the pool; the flatten keeps the values
                  /\ fpc \in {"view", "fc1"} =>
                        /\ Len(row) = Len(net.w[4]) \div 2
                        /\ \A k \in 1..Len(row) : row[k] >= 0
                  \* fc1, ReLU; fc2, ReLU
                  /\ fpc = "fc2" =>
                        /\ Len(row) = Len(net.w[6])
                        /\ \A k \in 1..Len(row) : row[k] >= 0
                  /\ fpc = "fc3" =>
                        /\ Len(row) = Len(net.w[8])
                        /\ \A k \in 1..Len(row) : row[k] >= 0
                  \* fc3, and nothing after it
                  /\ fpc = "return" =>
                        /\ Len(row) = NumClasses
                        /\ row = Forward(net.w, px)
                        /\ LET h == UpTo("fc3", net.w, px)
                           IN \A c \in 1..NumClasses :
                                 row[c] = SumSeq([k \in 1..Len(h) |->
                                              Mul(net.w[9][Len(h) * (c - 1) + k], h[k])])
                                          + net.w[10][c]

C11_AfterPass ==
    pc \in {"loss", "backward", "step", "eval_count"} =>
        /\ fpc = "idle" /\ calls = ForwardCalls /\ outputs = x
        /\ Len(outputs.data) = Len(PassInput.data)
        /\ \A j \in 1..Len(outputs.data) :
              outputs.data[j] = Forward(net.w, PassInput.data[j])

C11_LayerOrder == C11_DuringPass /\ C11_AfterPass

\* a training pass after a step, at its return: of one image conv1 gave a
\* negative value that ReLU cut and the pool kept the second value of a
\* window, the images of the batch have different rows, and a score is
\* negative
C11_Witness ==
    /\ fpc = "return" /\ pc = "forward" /\ steps >= 1
    /\ calls = ForwardCalls
    /\ \E j, m \in 1..Len(inputs.data) :
          LET z == Conv1(net.w, Input(inputs.data[j]))
          IN /\ \E k \in 1..Len(z) : z[k] < 0
             /\ \E k \in 1..(Len(z) \div 2) : z[2 * k] > z[2 * k - 1] /\ z[2 * k] > 0
             /\ x.data[j] # x.data[m]
             /\ \E c \in 1..NumClasses : x.data[j][c] < 0
             /\ \E c \in 1..NumClasses : x.data[j][c] > 0

(***************************************************************************)
(* C12: the training DataLoader serves batches of 4 images from trainset   *)
(* in randomised order: in one pass every training sample appears in       *)
(* exactly one batch, every batch holds exactly 4 samples when the dataset *)
(* size is a multiple of 4, and the order of samples is a permutation of   *)
(* the dataset.  Stated of the batches one pass over trainloader yields.   *)
(***************************************************************************)
\* the batches one pass over trainloader yields, in the order yielded
OnePass ==
    Values([b \in 1..IterLen(trainloader) |-> IterItem(trainloader, rng.shuffle, b)])
\* the places (batch, position) of the pass served
Places(served) ==
    {s \in (1..Len(served)) \X (1..BatchSize) : s[2] <= Len(served[s[1]][1].data)}
\* the places where sample k of the dataset is served
PlacesOf(served, k) ==
    LET item == GetItem(trainset, k) IN
    {s \in Places(served) :
        /\ served[s[1]][1].data[s[2]] = item[1]
        /\ served[s[1]][2].data[s[2]] = item[2]}
\* the samples of the dataset are pairwise different
AllDiffer ==
    \A k, m \in 1..trainset.n : k # m => GetItem(trainset, k) # GetItem(trainset, m)
\* batch b holds as many images as labels: 4, or what is left in the last
BatchHolds(batch, b, nb, n) ==
    /\ Len(batch[1].data) = Len(batch[2].data)
    /\ Len(batch[1].data) <= 4
    /\ Len(batch[1].data) = IF b < nb \/ n % 4 = 0 THEN 4 ELSE n % 4

C12_BatchesOfFour ==
    pc \in {"ds_check", "cell_move", "cell_check"} =>
        LET n == trainset.n
            nb == IterLen(trainloader)
        IN  /\ 4 * (nb - 1) < n /\ n <= 4 * nb
            /\ n <= MaxExplicit =>
                  LET served == OnePass IN
                  /\ AllDiffer
                  /\ Len(served) = nb
                  /\ Cardinality(Places(served)) = n
                  /\ \A k \in 1..n : Cardinality(PlacesOf(served, k)) = 1
                  /\ \A b \in 1..nb : BatchHolds(served[b], b, nb, n)
            /\ n > MaxExplicit =>
                  \A b \in {1, 2, nb - 1, nb} :
                      BatchHolds(IterItem(trainloader, rng.shuffle, b), b, nb, n)

\* two full batches of a disk of 8; the first batch is not the first four
\* samples of the disk: it holds a sample of the second half, and the first
\* sample of the disk is not the first served
C12_Witness ==
    /\ pc = "ds_check" /\ trainset.n = 8 /\ IterLen(trainloader) = 2
    /\ Len(OnePass[1][1].data) = 4 /\ Len(OnePass[2][1].data) = 4
    /\ \E j \in 1..4 : PlacesOf(OnePass, j) \subseteq {2} \X (1..4)
    /\ \E k \in 5..8 : PlacesOf(OnePass, k) \subseteq {1} \X (1..4)
    /\ PlacesOf(OnePass, 1) # {<<1, 1>>}

(***************************************************************************)
(* Statistics of a tensor, in thousandths, without division: the sum of    *)
(* the values, and n * (sum of squares) - (sum)^2, which is n^2 times the  *)
(* variance.                                                               *)
(***************************************************************************)
Total(t) == SumSeq(t.data)
Spread(t) ==
    Len(t.data) * SumSeq([k \in 1..Len(t.data) |-> t.data[k] * t.data[k]])
        - Total(t) * Total(t)

(***************************************************************************)
(* C13: after Normalize with mean 0.5 and standard deviation 0.5, the      *)
(* values of every image tensor have average zero and standard deviation   *)
(* 0.5.                                                                    *)
(***************************************************************************)
C13_AsStated ==
    pc = "normalized" =>
        /\ Total(inputs) = 0
        /\ Spread(inputs) = 500 * 500 * Len(inputs.data) * Len(inputs.data)
====
